---- MODULE Spec2Model ----
(***************************************************************************)
(* Model of the backward-chaining inference engine of src/Task7.py:        *)
(* Term, Clause, KnowledgeBase, Unification and BackwardsChainingEngine.   *)
(*                                                                         *)
(* A Python str is a sequence of one-character strings, so that            *)
(* str.isupper() and the f-string renaming are computed, not assumed.      *)
(* A Term object is a record [name, args, is_variable]; an argument that   *)
(* is a raw Python str (not a Term) is a record [str |-> name]. A dict is  *)
(* a function from names to Terms; dict objects live in `heap` and are     *)
(* referred to by their index, so that in-place mutation is visible.       *)
(***************************************************************************)
EXTENDS Integers, Sequences, FiniteSets, TLC

VARIABLES
    clauses,      \* KnowledgeBase.clauses: the list of Clause objects
    facts,        \* KnowledgeBase.facts: the set of cached ground facts
    trace,        \* BackwardsChainingEngine.trace
    call_stack,   \* BackwardsChainingEngine.call_stack
    frames,       \* the Python call stack of prove/_prove_body activations
    heap,         \* the substitution dict objects created by the running query
    status,       \* "idle" or "running": where the caller of the engine stands
    lastQuery,    \* the goal of the query that ran last
    outcome,      \* how that query ended: "none", "returned" or "RecursionError"
    result,       \* the (solutions, trace) pair that query returned
    firstResult,  \* for each goal queried since the last add: its first result
    ucall         \* a direct call of Unification.unify and what it produced

vars == <<clauses, facts, trace, call_stack, frames, heap, status, lastQuery,
          outcome, result, firstResult, ucall>>

(***************************************************************************)
(* Bounds of the model.                                                    *)
(***************************************************************************)
\* the host's recursion limit (sys.getrecursionlimit()), scaled down
RecursionLimit == 12
\* how many clauses the knowledge base is grown to
MaxClauses == 4

(***************************************************************************)
(* Python strings.                                                         *)
(***************************************************************************)
UpperChars == {"A","B","C","D","E","F","G","H","I","J","K","L","M",
               "N","O","P","Q","R","S","T","U","V","W","X","Y","Z"}
LowerChars == {"a","b","c","d","e","f","g","h","i","j","k","l","m",
               "n","o","p","q","r","s","t","u","v","w","x","y","z"}
DigitChars == <<"0","1","2","3","4","5","6","7","8","9">>

\* str.isupper(): no cased character is lowercase and there is a cased one
IsUpper(s) ==
    /\ \A i \in 1..Len(s) : s[i] \notin LowerChars
    /\ \E i \in 1..Len(s) : s[i] \in UpperChars

\* str(n) for a natural number n
RECURSIVE IntToStr(_)
IntToStr(n) ==
    IF n < 10 THEN <<DigitChars[n + 1]>>
    ELSE IntToStr(n \div 10) \o <<DigitChars[(n % 10) + 1]>>

\* sep.join(parts)
RECURSIVE Join(_, _)
Join(parts, sep) ==
    IF Len(parts) = 0 THEN <<>>
    ELSE IF Len(parts) = 1 THEN parts[1]
    ELSE parts[1] \o sep \o Join(Tail(parts), sep)

(***************************************************************************)
(* Term and Clause.                                                        *)
(***************************************************************************)
\* a raw str used as an argument
RawStr(s) == [str |-> s]
IsTerm(x) == "name" \in DOMAIN x

\* Term.__init__(name, args)
Term(name, args) == [name |-> name, args |-> args, is_variable |-> IsUpper(name)]

\* Term.__eq__, and == on two raw strs or on a raw str and a Term
RECURSIVE TermEq(_, _)
TermEq(x, y) ==
    IF IsTerm(x) /\ IsTerm(y)
    THEN /\ x.name = y.name
         /\ Len(x.args) = Len(y.args)
         /\ \A i \in 1..Len(x.args) : TermEq(x.args[i], y.args[i])
    ELSE IF ~IsTerm(x) /\ ~IsTerm(y) THEN x.str = y.str
    ELSE FALSE

\* Term.__str__, and str() of a raw str argument
RECURSIVE StrTerm(_)
StrTerm(x) ==
    IF ~IsTerm(x) THEN x.str
    ELSE IF Len(x.args) > 0
    THEN x.name \o <<"(">>
         \o Join([i \in 1..Len(x.args) |-> StrTerm(x.args[i])], <<",", " ">>)
         \o <<")">>
    ELSE x.name

\* Clause.__init__(head, body)
Clause(head, body) == [head |-> head, body |-> body]
is_fact(clause) == Len(clause.body) = 0
is_rule(clause) == Len(clause.body) > 0

\* Clause.__str__
StrClause(clause) ==
    IF is_fact(clause) THEN StrTerm(clause.head)
    ELSE StrTerm(clause.head) \o <<" :- ">>
         \o Join([i \in 1..Len(clause.body) |-> StrTerm(clause.body[i])], <<",", " ">>)

(***************************************************************************)
(* Unification.                                                            *)
(***************************************************************************)
EmptyDict == [n \in {} |-> 0]

\* the assignment forgotten: the dict stays as it was
DictSetDropped(d, k, v) == d

\* d[k] = v
DictSet(d, k, v) == [n \in DOMAIN d \cup {k} |-> IF n = k THEN v ELSE d[n]]

\* Unification.substitute(term, substitution)
RECURSIVE substitute(_, _)
substitute(term, substitution) ==
    IF term.is_variable /\ term.name \in DOMAIN substitution
    THEN substitution[term.name]
    ELSE IF Len(term.args) > 0
    THEN Term(term.name,
              [i \in 1..Len(term.args) |->
                  LET arg == term.args[i] IN
                  IF IsTerm(arg) THEN substitute(arg, substitution)
                  ELSE IF IsUpper(arg.str) /\ arg.str \in DOMAIN substitution
                  THEN substitution[arg.str]
                  ELSE arg])
    ELSE term

\* What a call of unify leaves behind: ret is "dict" (the dict passed in is
\* returned), "None" or "RecursionError"; sub is the content of the dict that
\* was passed in when the call ends, since unify binds in place.
UnifyResult(ret, sub) == [ret |-> ret, sub |-> sub]

\* Term(arg) if not isinstance(arg, Term) else arg
AsTerm(arg) == IF IsTerm(arg) THEN arg ELSE Term(arg.str, <<>>)

\* Unification.unify(term1, term2, substitution); room is the number of
\* Python frames left before the recursion limit.
RECURSIVE unify(_, _, _, _), UnifyArgs(_, _, _, _, _)
unify(t1, t2, substitution, room) ==
    IF room = 0 THEN UnifyResult("RecursionError", substitution)
    ELSE
    LET term1 == substitute(t1, substitution)
        term2 == substitute(t2, substitution)
    IN  IF TermEq(term1, term2) THEN UnifyResult("dict", substitution)
        ELSE IF term1.is_variable
        THEN IF term1.name \in DOMAIN substitution
             THEN unify(substitution[term1.name], term2, substitution, room - 1)
             ELSE UnifyResult("dict", DictSet(substitution, term1.name, term2))
        ELSE IF term2.is_variable
        THEN IF term2.name \in DOMAIN substitution
             THEN unify(term1, substitution[term2.name], substitution, room - 1)
             ELSE UnifyResult("dict", DictSet(substitution, term2.name, term1))
        ELSE IF term1.name = term2.name /\ Len(term1.args) = Len(term2.args)
        THEN UnifyArgs(term1.args, term2.args, 1, substitution, room)
        ELSE UnifyResult("None", substitution)

\* the for loop over zip(term1.args, term2.args), from pair i on
UnifyArgs(args1, args2, i, substitution, room) ==
    IF i > Len(args1) THEN UnifyResult("dict", substitution)
    ELSE LET r == unify(AsTerm(args1[i]), AsTerm(args2[i]), substitution, room - 1)
         IN  IF r.ret = "dict"
             THEN UnifyArgs(args1, args2, i + 1, r.sub, room)
             ELSE r

(***************************************************************************)
(* KnowledgeBase.                                                          *)
(***************************************************************************)
\* list(args) of a call add_fact(predicate, *args) or query(predicate, *args):
\* the arguments are raw strs
RawArgs(args) == [i \in 1..Len(args) |-> RawStr(args[i])]

\* the term add_fact builds
FactTerm(predicate, args) == Term(predicate, RawArgs(args))

\* the test under which add_fact caches the term in self.facts
NoUpperArg(args) == ~\E i \in 1..Len(args) : IsUpper(args[i])

\* the clause add_rule builds; body_conditions is a list of (pred, args) pairs
RuleClause(head_pred, head_args, body_conditions) ==
    Clause(Term(head_pred, RawArgs(head_args)),
           [i \in 1..Len(body_conditions) |->
               Term(body_conditions[i][1], RawArgs(body_conditions[i][2]))])

\* the argument counts compared the wrong way: only shorter heads match
get_matching_clauses_shorter(kb, goal) ==
    SelectSeq(kb, LAMBDA clause :
        clause.head.name = goal.name /\ Len(clause.head.args) < Len(goal.args))

\* the clauses collected newest first
RECURSIVE get_matching_clauses_newest_first(_, _)
get_matching_clauses_newest_first(kb, goal) ==
    IF kb = <<>> THEN <<>>
    ELSE LET clause == kb[1]
             rest == get_matching_clauses_newest_first(Tail(kb), goal)
         IN  IF clause.head.name = goal.name /\ Len(clause.head.args) = Len(goal.args)
             THEN Append(rest, clause)
             ELSE rest

\* KnowledgeBase.get_matching_clauses(goal)
get_matching_clauses(kb, goal) ==
    SelectSeq(kb, LAMBDA clause :
        clause.head.name = goal.name /\ Len(clause.head.args) = Len(goal.args))

(***************************************************************************)
(* BackwardsChainingEngine: the pure parts.                                *)
(***************************************************************************)
\* f"{name}_{suffix}"
Renamed(name, suffix) == name \o <<"_">> \o IntToStr(suffix)

\* rename_term inside _rename_variables
RECURSIVE rename_term(_, _)
rename_term(term, suffix) ==
    IF term.is_variable THEN Term(Renamed(term.name, suffix), <<>>)
    ELSE IF Len(term.args) > 0
    THEN Term(term.name,
              [i \in 1..Len(term.args) |->
                  LET arg == term.args[i] IN
                  IF IsTerm(arg) THEN rename_term(arg, suffix)
                  ELSE IF IsUpper(arg.str) THEN RawStr(Renamed(arg.str, suffix))
                  ELSE arg])
    ELSE term

\* BackwardsChainingEngine._rename_variables(clause, suffix)
rename_variables(clause, suffix) ==
    Clause(rename_term(clause.head, suffix),
           [i \in 1..Len(clause.body) |-> rename_term(clause.body[i], suffix)])

\* "  " * depth
RECURSIVE Indent(_)
Indent(depth) == IF depth = 0 THEN <<>> ELSE <<" ", " ">> \o Indent(depth - 1)

\* the two marks of the trace
Cross == "U+2717"
Check == "U+2713"

\* the lines prove appends to the trace
TryingLine(depth, goal_str) == Indent(depth) \o <<"Trying to prove: ">> \o goal_str
RecursionLine(depth) == Indent(depth) \o <<Cross, " Infinite recursion detected">>
UnifiedLine(depth, clause) == Indent(depth) \o <<"Unified with: ">> \o StrClause(clause)
FactLine(depth, goal_str) == Indent(depth) \o <<Check, " Fact proven: ">> \o goal_str
BodyLine(depth) == Indent(depth) \o <<"Proving body conditions...">>
CannotLine(depth, goal_str) == Indent(depth) \o <<Cross, " Cannot prove: ">> \o goal_str

\* the test inverted: the failure line if solutions
ClosingLinesInverted(solutions, depth, goal_str) ==
    IF Len(solutions) > 0 THEN <<CannotLine(depth, goal_str)>> ELSE <<>>

\* the lines prove appends after its loop: the failure line if not solutions
ClosingLines(solutions, depth, goal_str) ==
    IF Len(solutions) = 0 THEN <<CannotLine(depth, goal_str)>> ELSE <<>>

\* the entry prove pushes on self.call_stack: (goal, tuple(sorted(items)))
GuardEntry(goal, substitution) == [goal |-> goal, snapshot |-> substitution]

\* (goal, snapshot) in self.call_stack: == on the goals is Term.__eq__, == on
\* the snapshots compares the keys and, by Term.__eq__, the values
SnapshotEq(s1, s2) ==
    /\ DOMAIN s1 = DOMAIN s2
    /\ \A n \in DOMAIN s1 : TermEq(s1[n], s2[n])
\* the membership test one entry short: the newest entry is not looked at
InCallStackBelowTop(stack, goal, substitution) ==
    \E k \in 1..(Len(stack) - 1) :
        TermEq(stack[k].goal, goal) /\ SnapshotEq(stack[k].snapshot, substitution)

InCallStack(stack, goal, substitution) ==
    \E k \in 1..Len(stack) :
        TermEq(stack[k].goal, goal) /\ SnapshotEq(stack[k].snapshot, substitution)

\* the copy left out: unify works on the dict prove was given
NoCopyForUnify(h, ref) == [heap |-> h, ref |-> ref]

\* substitution.copy() at the call of unify in prove: a new dict object with
\* the same content; the result is the heap and the reference unify works on
CopyForUnify(h, ref) == [heap |-> Append(h, h[ref]), ref |-> Len(h) + 1]

(***************************************************************************)
(* The inputs the operations are called with: names, and for each example  *)
(* program the facts, the rules and the queries a caller may pass.         *)
(***************************************************************************)
john == <<"j","o","h","n">>
mary == <<"m","a","r","y">>
alice == <<"a","l","i","c","e">>
tom == <<"t","o","m">>
parent == <<"p","a","r","e","n","t">>
grandparent == <<"g","r","a","n","d","p","a","r","e","n","t">>
loop == <<"l","o","o","p">>
top == <<"t","o","p">>

FamilyProgram ==
    [facts |-> {<<parent, <<john, mary>>>>, <<parent, <<mary, alice>>>>,
                <<parent, <<john, tom>>>>},
     rules |-> {<<grandparent, <<<<"X">>, <<"Z">>>>,
                  << <<parent, <<<<"X">>, <<"Y">>>>>>,
                     <<parent, <<<<"Y">>, <<"Z">>>>>> >> >>},
     queries |-> {<<grandparent, <<john, alice>>>>, <<parent, <<john, mary>>>>,
                  <<parent, <<<<"X">>, alice>>>>}]

LoopProgram ==
    [facts |-> {<<loop, <<<<"a">>>>>>, <<<<"p">>, <<>>>>},
     rules |-> {<<loop, <<<<"X">>>>, << <<loop, <<<<"X">>>>>> >> >>,
                <<<<"p">>, <<>>, << <<<<"p">>, <<>>>> >> >>},
     queries |-> {<<loop, <<<<"a">>>>>>, <<<<"p">>, <<>>>>, <<loop, <<>>>>}]

SiblingProgram ==
    [facts |-> {<<<<"q">>, <<<<"a">>>>>>, <<<<"q">>, <<<<"b">>>>>>},
     rules |-> {<<<<"r">>, <<<<"X">>>>, << <<<<"q">>, <<<<"X">>>>>> >> >>,
                <<top, <<>>, << <<<<"r">>, <<<<"a">>>>>>, <<<<"r">>, <<<<"b">>>>>> >> >>},
     queries |-> {<<top, <<>>>>, <<<<"q">>, <<<<"X">>>>>>}]

\* the clause a fact input or a rule input becomes
FactClause(f) == Clause(FactTerm(f[1], f[2]), <<>>)
RuleInput(r) == RuleClause(r[1], r[2], r[3])
ProgramClauses(prog) ==
    {FactClause(f) : f \in prog.facts} \cup {RuleInput(r) : r \in prog.rules}

ExamplePrograms ==
    {[facts |-> prog.facts, rules |-> prog.rules, queries |-> prog.queries,
      clauses |-> ProgramClauses(prog)] :
        prog \in {FamilyProgram, LoopProgram, SiblingProgram}}

\* the example programs the knowledge base built so far is a part of
ProgramsOf(kb) ==
    {prog \in ExamplePrograms : \A k \in 1..Len(kb) : kb[k] \in prog.clauses}

(***************************************************************************)
(* The state machine: the activations of prove and _prove_body.            *)
(***************************************************************************)
ProveFrame(goal, substitution, depth) ==
    [fn |-> "prove", pc |-> "enter", goal |-> goal, substitution |-> substitution,
     depth |-> depth, goal_str |-> <<>>, matching_clauses |-> <<>>, i |-> 0,
     solutions |-> <<>>]

BodyFrame(body_conditions, substitution, depth) ==
    [fn |-> "_prove_body", pc |-> "enter", body_conditions |-> body_conditions,
     substitution |-> substitution, depth |-> depth, first_solutions |-> <<>>,
     j |-> 0, solutions |-> <<>>]

NoResult == [solutions |-> <<>>, trace |-> <<>>]
NoCall == [ret |-> "none"]

Top == frames[Len(frames)]
Callers == SubSeq(frames, 1, Len(frames) - 1)
SetTop(f) == [frames EXCEPT ![Len(frames)] = f]

\* the caller's frame once the call it waits for has returned ret:
\*   prove:        solutions.extend(body_solutions), next clause
\*   _prove_body:  first_solutions = ret, or solutions.extend(ret), next one
Resume(caller, ret) ==
    IF caller.fn = "prove"
    THEN [caller EXCEPT !.solutions = @ \o ret, !.i = @ + 1, !.pc = "loop"]
    ELSE IF caller.pc = "wait_first"
    THEN [caller EXCEPT !.first_solutions = ret, !.j = 1, !.pc = "loop"]
    ELSE [caller EXCEPT !.solutions = @ \o ret, !.j = @ + 1, !.pc = "loop"]

\* the activation on top returns ret (a list of dict references); when it is
\* the last one, query returns (solutions, self.trace) to its caller
Return(ret, h, tr) ==
    IF Len(frames) = 1
    THEN LET res == [solutions |-> [k \in 1..Len(ret) |-> h[ret[k]]], trace |-> tr]
         IN  /\ frames' = <<>>
             /\ status' = "idle"
             /\ outcome' = "returned"
             /\ result' = res
             /\ firstResult' =
                    IF lastQuery \in DOMAIN firstResult THEN firstResult
                    ELSE [g \in DOMAIN firstResult \cup {lastQuery} |->
                            IF g = lastQuery THEN res ELSE firstResult[g]]
    ELSE /\ frames' = [Callers EXCEPT ![Len(frames) - 1] = Resume(@, ret)]
         /\ UNCHANGED <<status, outcome, result, firstResult>>

\* RecursionError unwinds every activation and leaves query; nothing catches
\* it inside the engine, so self.trace and self.call_stack stay as they are
Raise ==
    /\ frames' = <<>>
    /\ status' = "idle"
    /\ outcome' = "RecursionError"
    /\ UNCHANGED <<result, firstResult>>

Init ==
    /\ clauses = <<>>
    /\ facts = {}
    /\ trace = <<>>
    /\ call_stack = <<>>
    /\ frames = <<>>
    /\ heap = <<>>
    /\ status = "idle"
    /\ lastQuery = Term(<<>>, <<>>)
    /\ outcome = "none"
    /\ result = NoResult
    /\ firstResult = EmptyDict
    /\ ucall = NoCall

\* KnowledgeBase.add_fact(predicate, *args)
add_fact(predicate, args) ==
    /\ status = "idle"
    /\ Len(clauses) < MaxClauses
    /\ LET term == FactTerm(predicate, args) IN
        /\ clauses' = Append(clauses, Clause(term, <<>>))
        /\ facts' = IF NoUpperArg(args) THEN facts \cup {term} ELSE facts
    /\ firstResult' = EmptyDict
    /\ UNCHANGED <<trace, call_stack, frames, heap, status, lastQuery, outcome,
                   result, ucall>>

\* KnowledgeBase.add_rule(head_pred, head_args, body_conditions)
add_rule(head_pred, head_args, body_conditions) ==
    /\ status = "idle"
    /\ Len(clauses) < MaxClauses
    /\ clauses' = Append(clauses, RuleClause(head_pred, head_args, body_conditions))
    /\ firstResult' = EmptyDict
    /\ UNCHANGED <<facts, trace, call_stack, frames, heap, status, lastQuery,
                   outcome, result, ucall>>

\* the reset left out: the list of the query before stays in use
KeptTrace == trace

\* self.trace = [] at the start of query
NewTrace == <<>>

\* self.call_stack = [] at the start of query
NewCallStack == <<>>

\* BackwardsChainingEngine.query(predicate, *args), up to the call of prove;
\* prove(goal) starts from substitution = {} and depth = 0
query(predicate, args) ==
    /\ status = "idle"
    /\ trace' = NewTrace
    /\ call_stack' = NewCallStack
    /\ LET goal == Term(predicate, RawArgs(args)) IN
        /\ heap' = <<EmptyDict>>
        /\ frames' = <<ProveFrame(goal, 1, 0)>>
        /\ lastQuery' = goal
    /\ status' = "running"
    /\ outcome' = "none"
    /\ result' = NoResult
    /\ UNCHANGED <<clauses, facts, firstResult, ucall>>

\* prove, lines 171-185: the attempt line, the cycle guard, the push on
\* self.call_stack and the fetch of the matching clauses
prove_enter ==
    /\ status = "running"
    /\ Top.fn = "prove" /\ Top.pc = "enter"
    /\ LET substitution == heap[Top.substitution]
           goal_str == StrTerm(substitute(Top.goal, substitution))
           tr == Append(trace, TryingLine(Top.depth, goal_str))
       IN  IF InCallStack(call_stack, Top.goal, substitution)
           THEN /\ trace' = Append(tr, RecursionLine(Top.depth))
                /\ Return(<<>>, heap, trace')
                /\ UNCHANGED call_stack
           ELSE /\ trace' = tr
                /\ call_stack' = Append(call_stack, GuardEntry(Top.goal, substitution))
                /\ frames' = SetTop([Top EXCEPT
                       !.pc = "loop", !.goal_str = goal_str,
                       !.matching_clauses = get_matching_clauses(clauses, Top.goal),
                       !.i = 1])
                /\ UNCHANGED <<status, outcome, result, firstResult>>
    /\ UNCHANGED <<clauses, facts, heap, lastQuery, ucall>>

\* prove, lines 187-205: one turn of the loop over the matching clauses
prove_clause ==
    /\ status = "running"
    /\ Top.fn = "prove" /\ Top.pc = "loop"
    /\ Top.i <= Len(Top.matching_clauses)
    /\ LET renamed_clause == rename_variables(Top.matching_clauses[Top.i], Top.depth)
           copy == CopyForUnify(heap, Top.substitution)
           r == unify(Top.goal, renamed_clause.head, copy.heap[copy.ref],
                      RecursionLimit - Len(frames))
           unified_sub == copy.ref
       IN  /\ heap' = [copy.heap EXCEPT ![copy.ref] = r.sub]
           /\ IF r.ret = "RecursionError"
              THEN Raise /\ UNCHANGED trace
              ELSE IF r.ret = "None"
              THEN /\ frames' = SetTop([Top EXCEPT !.i = @ + 1])
                   /\ UNCHANGED <<trace, status, outcome, result, firstResult>>
              ELSE IF is_fact(renamed_clause)
              THEN /\ trace' = trace \o <<UnifiedLine(Top.depth, renamed_clause),
                                          FactLine(Top.depth, Top.goal_str)>>
                   /\ frames' = SetTop([Top EXCEPT
                          !.solutions = Append(@, unified_sub), !.i = @ + 1])
                   /\ UNCHANGED <<status, outcome, result, firstResult>>
              ELSE /\ trace' = trace \o <<UnifiedLine(Top.depth, renamed_clause),
                                          BodyLine(Top.depth)>>
                   /\ IF Len(frames) >= RecursionLimit THEN Raise
                      ELSE /\ frames' = Append(SetTop([Top EXCEPT !.pc = "wait"]),
                                  BodyFrame(renamed_clause.body, unified_sub,
                                            Top.depth + 1))
                           /\ UNCHANGED <<status, outcome, result, firstResult>>
    /\ UNCHANGED <<clauses, facts, call_stack, lastQuery, ucall>>

\* the oldest entry removed instead of the newest
call_stack_pop_front(stack) == Tail(stack)

\* self.call_stack.pop()
call_stack_pop(stack) == SubSeq(stack, 1, Len(stack) - 1)

\* prove, lines 207-212: the pop, the failure line and the return
prove_return ==
    /\ status = "running"
    /\ Top.fn = "prove" /\ Top.pc = "loop"
    /\ Top.i > Len(Top.matching_clauses)
    /\ call_stack' = call_stack_pop(call_stack)
    /\ trace' = trace \o ClosingLines(Top.solutions, Top.depth, Top.goal_str)
    /\ Return(Top.solutions, heap, trace')
    /\ UNCHANGED <<clauses, facts, heap, lastQuery, ucall>>

\* _prove_body, lines 216-224: the empty conjunction, or the call of prove
\* on the first condition
prove_body_enter ==
    /\ status = "running"
    /\ Top.fn = "_prove_body" /\ Top.pc = "enter"
    /\ IF Len(Top.body_conditions) = 0
       THEN Return(<<Top.substitution>>, heap, trace)
       ELSE IF Len(frames) >= RecursionLimit THEN Raise
       ELSE /\ frames' = Append(SetTop([Top EXCEPT !.pc = "wait_first"]),
                   ProveFrame(Top.body_conditions[1], Top.substitution, Top.depth))
            /\ UNCHANGED <<status, outcome, result, firstResult>>
    /\ UNCHANGED <<clauses, facts, trace, call_stack, heap, lastQuery, ucall>>

\* the remaining conditions proven under the substitution _prove_body was
\* given, not under the solution of the first condition
RestFromStart(substitution, solution) == substitution

\* the substitution _prove_body proves the remaining conditions under, for
\* the solution of the first condition it has reached
RestSubstitution(substitution, solution) == solution

\* _prove_body, lines 227-231: one turn of the loop over first_solutions, or
\* the return
prove_body_next ==
    /\ status = "running"
    /\ Top.fn = "_prove_body" /\ Top.pc = "loop"
    /\ IF Top.j <= Len(Top.first_solutions)
       THEN IF Len(frames) >= RecursionLimit THEN Raise
            ELSE /\ frames' = Append(SetTop([Top EXCEPT !.pc = "wait_rest"]),
                        BodyFrame(Tail(Top.body_conditions),
                                  RestSubstitution(Top.substitution,
                                                   Top.first_solutions[Top.j]),
                                  Top.depth))
                 /\ UNCHANGED <<status, outcome, result, firstResult>>
       ELSE Return(Top.solutions, heap, trace)
    /\ UNCHANGED <<clauses, facts, trace, call_stack, heap, lastQuery, ucall>>

Next ==
    \/ \E prog \in ProgramsOf(clauses) : \E f \in prog.facts : add_fact(f[1], f[2])
    \/ \E prog \in ProgramsOf(clauses) : \E r \in prog.rules : add_rule(r[1], r[2], r[3])
    \/ \E prog \in ProgramsOf(clauses) : \E q \in prog.queries : query(q[1], q[2])
    \/ prove_enter
    \/ prove_clause
    \/ prove_return
    \/ prove_body_enter
    \/ prove_body_next

Spec == Init /\ [][Next]_vars

(***************************************************************************)
(* Direct calls of the static method Unification.unify.                    *)
(***************************************************************************)
\* the terms and the substitutions a caller passes
Var(name) == Term(name, <<>>)
Atom(name) == Term(name, <<>>)
Compound(name, args) == Term(name, args)

UnifyTerms ==
    {Var(<<"X">>), Var(<<"Y">>), Var(<<"X", "y">>), Atom(<<"a">>), Atom(<<"b">>),
     Compound(<<"f">>, <<Var(<<"X">>), Atom(<<"b">>)>>),
     Compound(<<"f">>, <<Atom(<<"a">>), Var(<<"Y">>)>>),
     Compound(<<"f">>, <<Atom(<<"a">>), Atom(<<"a">>)>>),
     Compound(<<"f">>, <<Var(<<"X">>)>>),
     Compound(<<"g">>, <<Atom(<<"a">>), Var(<<"Y">>)>>),
     Compound(<<"F">>, <<Atom(<<"a">>)>>),
     Compound(<<"f">>, RawArgs(<<<<"X">>, <<"b">>>>))}

UnifySubstitutions ==
    {EmptyDict,
     (<<"X">> :> Atom(<<"a">>)),
     (<<"Y">> :> Atom(<<"b">>)),
     (<<"X">> :> Var(<<"Y">>)),
     (<<"X">> :> Var(<<"Y">>)) @@ (<<"Y">> :> Atom(<<"a">>))}

\* Unification.unify(term1, term2, substitution) called from outside the
\* engine: what was passed, what came back, and the dict afterwards
unify_call(term1, term2, substitution) ==
    /\ status = "idle"
    /\ LET r == unify(term1, term2, substitution, RecursionLimit)
       IN  ucall' = [term1 |-> term1, term2 |-> term2, substitution |-> substitution,
                     resolved1 |-> substitute(term1, substitution),
                     resolved2 |-> substitute(term2, substitution),
                     ret |-> r.ret, after |-> r.sub]
    /\ UNCHANGED <<clauses, facts, trace, call_stack, frames, heap, status,
                   lastQuery, outcome, result, firstResult>>

NextUnify ==
    \E term1 \in UnifyTerms, term2 \in UnifyTerms :
        \E substitution \in UnifySubstitutions :
            unify_call(term1, term2, substitution)

SpecUnify == Init /\ [][NextUnify]_vars

(***************************************************************************)
(* Properties of Unification.unify, checked under SpecUnify.               *)
(***************************************************************************)
Called == ucall.ret # "none"
StartsUpper(name) == Len(name) > 0 /\ name[1] \in UpperChars
IsCompound(t) == Len(t.args) > 0

\* C4: a Term is a variable exactly when its name starts with an uppercase
\* letter; Xy and John, mixed-case with a leading capital, are variables.
C4_LeadingUppercaseIsVariable ==
    Called => \A t \in {ucall.term1, ucall.term2} :
                  t.is_variable = StartsUpper(t.name)

\* C5: unify of two compound terms whose functor names differ or whose
\* argument counts differ fails, whatever the substitution and the names.
C5_DifferentCompoundsFail ==
    (/\ Called
     /\ IsCompound(ucall.term1) /\ IsCompound(ucall.term2)
     /\ \/ ucall.term1.name # ucall.term2.name
        \/ Len(ucall.term1.args) # Len(ucall.term2.args))
    => ucall.ret = "None"

\* C9: from the empty substitution unify(X, a) and unify(a, X) both return
\* exactly {X -> a}, and unify(f(X, b), f(a, Y)) returns exactly
\* {X -> a, Y -> b}.
C9_BindsOnEitherSide ==
    LET X == Var(<<"X">>)
        a == Atom(<<"a">>)
        fXb == Compound(<<"f">>, <<Var(<<"X">>), Atom(<<"b">>)>>)
        faY == Compound(<<"f">>, <<Atom(<<"a">>), Var(<<"Y">>)>>)
        from(t1, t2) == /\ Called
                        /\ ucall.term1 = t1 /\ ucall.term2 = t2
                        /\ ucall.substitution = EmptyDict
    IN  /\ from(X, a) => ucall.ret = "dict" /\ ucall.after = (<<"X">> :> a)
        /\ from(a, X) => ucall.ret = "dict" /\ ucall.after = (<<"X">> :> a)
        /\ from(fXb, faY) =>
               /\ ucall.ret = "dict"
               /\ ucall.after = (<<"X">> :> a) @@ (<<"Y">> :> Atom(<<"b">>))

C9_Witness ==
    /\ Called
    /\ ucall.term1 = Compound(<<"f">>, <<Var(<<"X">>), Atom(<<"b">>)>>)
    /\ ucall.term2 = Compound(<<"f">>, <<Atom(<<"a">>), Var(<<"Y">>)>>)
    /\ ucall.substitution = EmptyDict
    /\ ucall.ret = "dict"
    /\ DOMAIN ucall.after = {<<"X">>, <<"Y">>}

(***************************************************************************)
(* Properties of the engine, checked under Spec.                           *)
(***************************************************************************)
Range(seq) == {seq[k] : k \in 1..Len(seq)}
Goal(predicate, args) == Term(predicate, RawArgs(args))

\* the step on which query hands its result, or RecursionError, to its caller
QueryEnds == status = "running" /\ status' = "idle"
QueryReturns == QueryEnds /\ outcome' = "returned"

LoopRule == RuleClause(loop, <<<<"X">>>>, << <<loop, <<<<"X">>>>>> >>)
LoopGoal == Goal(loop, <<<<"a">>>>)

\* C1: with the rule loop(X) :- loop(X) and no loop fact, query(loop, a)
\* returns, and returns no solution: the nesting of prove does not grow
\* until the host's recursion limit ends the query.
C1_LoopQueryReturnsNothing ==
    [][(/\ QueryEnds
        /\ lastQuery = LoopGoal
        /\ LoopRule \in Range(clauses)
        /\ \A c \in Range(clauses) : c.head.name = loop => is_rule(c))
       => (outcome' = "returned" /\ result'.solutions = <<>>)]_vars

\* the goal is a fact of the knowledge base with no variable among its
\* arguments, as add_fact appended it
GroundFactIn(kb, goal) ==
    /\ Clause(goal, <<>>) \in Range(kb)
    /\ \A i \in 1..Len(goal.args) : ~IsUpper(goal.args[i].str)
Occurrences(seq, x) == Cardinality({k \in 1..Len(seq) : seq[k] = x})

RECURSIVE VarNames(_)
VarNames(x) ==
    IF ~IsTerm(x) THEN IF IsUpper(x.str) THEN {x.str} ELSE {}
    ELSE IF x.is_variable THEN {x.name}
    ELSE UNION {VarNames(x.args[i]) : i \in 1..Len(x.args)}
ClauseVarNames(clause) ==
    VarNames(clause.head) \cup UNION {VarNames(clause.body[i]) : i \in 1..Len(clause.body)}

\* C3: when prove unifies a goal with the head of a renamed rule, the
\* renamed variables of the rule are unbound in the substitution, also when
\* the same rule has been proven just before at the same depth.
C3_RenamedVariablesUnbound ==
    \A k \in 1..Len(frames) :
        LET f == frames[k] IN
        (f.fn = "prove" /\ f.pc = "loop" /\ f.i <= Len(f.matching_clauses)
            /\ is_rule(f.matching_clauses[f.i]))
        => ClauseVarNames(rename_variables(f.matching_clauses[f.i], f.depth))
               \cap DOMAIN heap[f.substitution] = {}

\* C6: a query that is run again on the same knowledge base, whatever was
\* queried in between, returns the solutions and the trace of its first run.
C6_RerunSameResult ==
    (status = "idle" /\ outcome = "returned" /\ lastQuery \in DOMAIN firstResult)
    => result = firstResult[lastQuery]

\* a query that has returned before is run again, after another one, and
\* is about to return
C6_Witness ==
    /\ status = "running"
    /\ lastQuery \in DOMAIN firstResult
    /\ \E g \in DOMAIN firstResult : g # lastQuery
    /\ Len(frames) = 1 /\ frames[1].pc = "loop"
    /\ frames[1].i > Len(frames[1].matching_clauses)
    /\ Len(trace) > 2

\* C7: a query whose name and argument count match no clause head returns
\* no solution and the trace of the attempt line and the failure line,
\* raises nothing and leaves the knowledge base as it was.
C7_UnknownGoalShape ==
    [][/\ (QueryEnds /\ get_matching_clauses(clauses, lastQuery) = <<>>)
          => /\ outcome' = "returned"
             /\ result'.solutions = <<>>
             /\ result'.trace = <<TryingLine(0, StrTerm(lastQuery)),
                                  CannotLine(0, StrTerm(lastQuery))>>
       /\ (status = "running" \/ status' = "running")
          => (clauses' = clauses /\ facts' = facts)]_vars

\* the wrong argument count: loop() against a knowledge base that has loop/1
C7_Witness ==
    /\ status = "idle" /\ outcome = "returned"
    /\ lastQuery = Goal(loop, <<>>)
    /\ lastQuery \in DOMAIN firstResult
    /\ \E c \in Range(clauses) : c.head.name = loop
    /\ result.solutions = <<>>
    /\ Len(result.trace) = 2

ParentJohnMary == Clause(FactTerm(parent, <<john, mary>>), <<>>)
ParentMaryAlice == Clause(FactTerm(parent, <<mary, alice>>), <<>>)
GrandparentRule ==
    RuleClause(grandparent, <<<<"X">>, <<"Z">>>>,
               << <<parent, <<<<"X">>, <<"Y">>>>>>, <<parent, <<<<"Y">>, <<"Z">>>>>> >>)
GrandparentGoal == Goal(grandparent, <<john, alice>>)
Y_0 == <<"Y", "_", "0">>
SecondCondition == Goal(parent, <<Y_0, <<"Z", "_", "0">>>>)

\* C8: with parent(john,mary), parent(mary,alice) and the grandparent rule,
\* wherever they stand among further parent facts, query(grandparent, john,
\* alice) returns at least one solution; the second body condition is
\* proven under a binding the first one found for Y, and the solutions bind
\* Y to mary.
C8_GrandparentProven ==
    [][/\ (QueryEnds
           /\ lastQuery = GrandparentGoal
           /\ {ParentJohnMary, ParentMaryAlice, GrandparentRule} \subseteq Range(clauses))
          => /\ outcome' = "returned"
             /\ Len(result'.solutions) >= 1
             /\ \A k \in 1..Len(result'.solutions) :
                    /\ Y_0 \in DOMAIN result'.solutions[k]
                    /\ result'.solutions[k][Y_0] = Atom(mary)
       /\ \A k \in 1..Len(frames') :
            (/\ lastQuery' = GrandparentGoal
             /\ frames'[k].fn = "prove"
             /\ frames'[k].goal = SecondCondition)
            => LET sub == heap'[frames'[k].substitution] IN
               /\ Y_0 \in DOMAIN sub
               /\ \E c \in Range(clauses') :
                    /\ is_fact(c) /\ c.head.name = parent
                    /\ c.head.args[1] = RawStr(john)
                    /\ sub[Y_0] = Atom(c.head.args[2].str)]_vars

\* a further parent fact stands before the two facts and the rule
C8_Witness ==
    /\ status = "idle" /\ outcome = "returned"
    /\ lastQuery = GrandparentGoal
    /\ lastQuery \in DOMAIN firstResult
    /\ Len(clauses) = 4
    /\ clauses[1] = Clause(FactTerm(parent, <<john, tom>>), <<>>)
    /\ {ParentJohnMary, ParentMaryAlice, GrandparentRule} \subseteq Range(clauses)
    /\ Len(result.solutions) = 1

\* C10: while a query runs no dict that exists is modified: prove leaves
\* the substitution it was given as it was, and so every substitution that
\* was returned as a solution or handed to a clause attempt; unify binds in
\* a dict made for the one clause attempt only.
C10_SubstitutionsBranchLocal ==
    [][(status = "running" /\ status' = "running")
       => /\ Len(heap') >= Len(heap)
          /\ \A r \in 1..Len(heap) : heap'[r] = heap[r]]_vars

\* a clause attempt has failed after binding a variable in its own dict,
\* and the next clause is tried from the substitution without that binding
C10_Witness ==
    /\ status = "running"
    /\ Top.fn = "prove" /\ Top.pc = "loop" /\ Top.i = 2
    /\ Top.solutions = <<>>
    /\ Len(Top.matching_clauses) >= 2
    /\ heap[Len(heap)] # heap[Top.substitution]

(***************************************************************************)
(* Properties of unify on failure and of substitute, checked under         *)
(* SpecUnify.                                                              *)
(***************************************************************************)
\* C11: when unify of two compound terms fails, the dict the caller passed
\* holds exactly the bindings it held before the call: no binding made for
\* an earlier argument pair survives.
C11_FailureLeavesSubstitution ==
    (/\ Called
     /\ IsCompound(ucall.term1) /\ IsCompound(ucall.term2)
     /\ ucall.ret = "None")
    => ucall.after = ucall.substitution

\* C12: the terms unify resolves first hold no variable that has a binding:
\* substitute follows a binding to its end, X -> Y -> a gives a for X.
C12_ResolvedTermsFullyResolved ==
    Called => \A t \in {ucall.resolved1, ucall.resolved2} :
                  VarNames(t) \cap DOMAIN ucall.substitution = {}

(***************************************************************************)
(* Properties of the cycle guard and of the clause loop, checked under     *)
(* Spec.                                                                   *)
(***************************************************************************)
PRule == RuleClause(<<"p">>, <<>>, << <<<<"p">>, <<>>>> >>)
PGoal == Goal(<<"p">>, <<>>)

\* prove has been entered and has not reached its guard yet
AtGuard == status = "running" /\ Top.fn = "prove" /\ Top.pc = "enter"

\* an activation of prove below the one on top has the same goal and a
\* substitution with the same content
SamePairActive ==
    \E k \in 1..(Len(frames) - 1) :
        /\ frames[k].fn = "prove"
        /\ frames[k].goal = Top.goal
        /\ heap[frames[k].substitution] = heap[Top.substitution]

\* C13: a prove invocation whose (goal, substitution) pair equals that of an
\* active prove invocation returns no solutions, pushes no guard entry and
\* tries no clause; one whose pair differs from every active pair goes on
\* to its clauses; and a query of p with the rule p :- p and no other clause
\* for p returns with zero solutions.
C13_GuardCutsExactlyRepeats ==
    [][/\ (AtGuard /\ SamePairActive) =>
              /\ call_stack' = call_stack
              /\ heap' = heap
              /\ trace' = trace \o <<TryingLine(Top.depth, StrTerm(substitute(Top.goal, heap[Top.substitution]))),
                                      RecursionLine(Top.depth)>>
              /\ Len(frames') = Len(frames) - 1
              /\ LET caller == frames[Len(frames) - 1]
                     after == frames'[Len(frames')]
                 IN  /\ after.pc = "loop"
                     /\ after.solutions = caller.solutions
                     /\ caller.pc = "wait_first" => after.first_solutions = <<>>
       /\ (AtGuard /\ ~SamePairActive) =>
              /\ Len(frames') = Len(frames)
              /\ frames'[Len(frames')].pc = "loop"
              /\ frames'[Len(frames')].matching_clauses
                     = get_matching_clauses(clauses, Top.goal)
              /\ Len(call_stack') = Len(call_stack) + 1
       /\ (/\ QueryEnds
           /\ lastQuery = PGoal
           /\ PRule \in Range(clauses)
           /\ \A c \in Range(clauses) : c.head.name = <<"p">> => c = PRule)
          => (outcome' = "returned" /\ result'.solutions = <<>>)]_vars

C13_Witness ==
    /\ status = "idle" /\ outcome = "returned"
    /\ lastQuery = PGoal
    /\ PRule \in Range(clauses)
    /\ \A c \in Range(clauses) : c.head.name = <<"p">> => c = PRule
    /\ result.solutions = <<>>
    /\ RecursionLine(1) \in Range(result.trace)

\* the guard entries of the activations of prove that are past the guard,
\* outermost first
RECURSIVE PassedGuard(_)
PassedGuard(fs) ==
    IF fs = <<>> THEN <<>>
    ELSE LET f == fs[Len(fs)]
             below == PassedGuard(SubSeq(fs, 1, Len(fs) - 1))
         IN  IF f.fn = "prove" /\ f.pc # "enter"
             THEN Append(below, [goal |-> f.goal, snapshot |-> heap[f.substitution]])
             ELSE below

\* C14: while a query runs, self.call_stack holds exactly one entry for each
\* active prove invocation that is past the guard, in nesting order, and it
\* is empty when query has returned.
C14_GuardScopedToProve ==
    /\ status = "running" => call_stack = PassedGuard(frames)
    /\ (status = "idle" /\ outcome = "returned") => call_stack = <<>>

C14_Witness ==
    /\ status = "running"
    /\ Top.fn = "prove" /\ Top.pc = "loop" /\ Top.depth = 1
    /\ \E k \in 1..Len(frames) : frames[k].pc = "wait_rest"
    /\ Len(call_stack) = 2
    /\ call_stack = PassedGuard(frames)

\* the positions in the knowledge base of the clauses whose head has the
\* name and the argument count of the goal, and the j-th of them
MatchingIndices(goal) ==
    {k \in 1..Len(clauses) :
        /\ clauses[k].head.name = goal.name
        /\ Len(clauses[k].head.args) = Len(goal.args)}
NthMatching(goal, j) ==
    CHOOSE k \in MatchingIndices(goal) :
        Cardinality({m \in MatchingIndices(goal) : m < k}) = j - 1

InClauseLoop(f) == f.fn = "prove" /\ f.pc # "enter"
IsPrefix(s, t) == Len(s) <= Len(t) /\ SubSeq(t, 1, Len(s)) = s

QGoal == Goal(<<"q">>, <<<<"X">>>>)
QFactIndices == MatchingIndices(QGoal)

\* C15: prove goes through every clause whose head has the name and the
\* argument count of the goal, and through no other clause, in insertion
\* order, one after the other until the last even when an earlier one gave
\* solutions; the solutions of a clause are listed after those of every
\* clause before it. For the facts q(a), q(b) the query q(X) returns the
\* bindings of X in the order in which the facts were added.
C15_AllMatchingClausesInOrder ==
    [][/\ \A k \in 1..Len(frames) : InClauseLoop(frames[k]) =>
              LET f == frames[k] IN
              /\ Len(f.matching_clauses) = Cardinality(MatchingIndices(f.goal))
              /\ \A j \in 1..Len(f.matching_clauses) :
                     f.matching_clauses[j] = clauses[NthMatching(f.goal, j)]
              /\ k <= Len(frames') =>
                     /\ frames'[k].i \in {f.i, f.i + 1}
                     /\ IsPrefix(f.solutions, frames'[k].solutions)
                     /\ frames'[k].solutions # f.solutions => frames'[k].i = f.i + 1
       /\ (AtGuard /\ Len(frames') = Len(frames)) => frames'[Len(frames')].i = 1
       /\ (/\ status = "running" /\ InClauseLoop(Top)
           /\ Len(frames') < Len(frames)
           /\ outcome' # "RecursionError")
          => Top.i = Len(Top.matching_clauses) + 1
       /\ (QueryReturns /\ lastQuery = QGoal) =>
              /\ Len(result'.solutions) = Cardinality(QFactIndices)
              /\ \A j \in 1..Len(result'.solutions) :
                     LET arg == clauses[NthMatching(QGoal, j)].head.args[1]
                     IN  result'.solutions[j] = (<<"X">> :> AsTerm(arg))]_vars

C15_Witness ==
    /\ status = "idle" /\ outcome = "returned"
    /\ lastQuery = QGoal
    /\ Len(result.solutions) = 2
    /\ result.solutions[1] # result.solutions[2]
    /\ Cardinality(QFactIndices) = 2

====
